---- MODULE Spec2Model ----
(***************************************************************************)
(* A model of the kmean package of weidongtoml/plsa: the sparse            *)
(* term-weight vector PlsaSample (src/unnamed/part_002 lines 16-191), the  *)
(* k-means++ seeder and the Lloyd loop (part_002 lines 248-401), the       *)
(* Cluster type and its statistics (src/src/kmean/cluster.go), the loading *)
(* of the samples (src/src/kmean/hioutil.go), and of the EM loop of the    *)
(* plsa package (src/src/plsa/plsa.go).                                    *)
(*                                                                         *)
(* float64 values are modelled exactly: a finite value is (n/d)*sqrt(r)    *)
(* with n an integer, d > 0, r a square-free positive integer, so that     *)
(* math.Sqrt and the divisions of the code are computed, not approximated. *)
(* The IEEE-754 special values the code can produce by dividing by zero    *)
(* (NaN, +Inf, -Inf) are values of their own, with the IEEE rules for      *)
(* arithmetic and comparison.  Rounding is not modelled.                   *)
(***************************************************************************)
EXTENDS Integers, Sequences, FiniteSets, TLC

(***************************************************************************)
(* float64                                                                 *)
(***************************************************************************)
Abs(x) == IF x < 0 THEN -x ELSE x

Sign(x) == IF x < 0 THEN -1 ELSE IF x = 0 THEN 0 ELSE 1

RECURSIVE Gcd(_, _)
Gcd(a, b) == IF b = 0 THEN a ELSE Gcd(b, a % b)

\* best times the largest t with t*t dividing x, the factors of t tried from
\* s on (x has no square factor below s).
RECURSIVE SqPartFrom(_, _, _)
SqPartFrom(x, s, best) ==
    IF s * s > x THEN best
    ELSE IF x % (s * s) = 0 THEN SqPartFrom(x \div (s * s), s, best * s)
    ELSE SqPartFrom(x, s + 1, best)

\* The largest s with s*s dividing x (x >= 1).
SqPart(x) == SqPartFrom(x, 2, 1)

NaN == [k |-> "nan"]
\* math.MaxFloat64: finite, above every value the runs compute; its square
\* overflows to +Inf.
MaxFloat64 == [k |-> "max"]
PosInf == [k |-> "inf", s |-> 1]
NegInf == [k |-> "inf", s |-> -1]

\* The finite value (n/d)*sqrt(r) in canonical form; d > 0, r >= 1.
Fin(n, d, r) ==
    IF n = 0 THEN [k |-> "fin", n |-> 0, d |-> 1, r |-> 1]
    ELSE LET s  == SqPart(r)
             n2 == n * s
             g  == Gcd(Abs(n2), d)
         IN  [k |-> "fin", n |-> n2 \div g, d |-> d \div g, r |-> r \div (s * s)]

\* The float64 of an integer, and of a ratio of integers (q > 0).
F(i) == Fin(i, 1, 1)
Ratio(p, q) == Fin(p, q, 1)

Zero64 == F(0)
One64 == F(1)

IsNaN(x) == x.k = "nan"
IsInf(x) == x.k = "inf"
IsFin(x) == x.k = "fin"
IsZero(x) == x.k = "fin" /\ x.n = 0
SignOf(x) == IF x.k = "inf" THEN x.s ELSE Sign(x.n)

\* x * y
FMul(x, y) ==
    IF x.k = "max" /\ y.k = "max" THEN PosInf
    ELSE IF IsNaN(x) \/ IsNaN(y) THEN NaN
    ELSE IF IsInf(x) \/ IsInf(y)
         THEN IF IsZero(x) \/ IsZero(y) THEN NaN
              ELSE IF SignOf(x) * SignOf(y) > 0 THEN PosInf ELSE NegInf
    ELSE Fin(x.n * y.n, x.d * y.d, x.r * y.r)

\* 1 / y for a finite y # 0: d / (n*sqrt(r)) = (d / (n*r)) * sqrt(r)
FInv(y) ==
    LET den == y.n * y.r
    IN  Fin(Sign(den) * y.d, Abs(den), y.r)

\* x / y: a division by zero yields NaN (0/0) or an infinity, it does not panic.
FDiv(x, y) ==
    IF IsNaN(x) \/ IsNaN(y) THEN NaN
    ELSE IF IsInf(x)
         THEN IF IsInf(y) THEN NaN
              ELSE IF SignOf(x) * (IF IsZero(y) THEN 1 ELSE SignOf(y)) > 0
                   THEN PosInf ELSE NegInf
    ELSE IF IsInf(y) THEN Zero64
    ELSE IF IsZero(y)
         THEN IF IsZero(x) THEN NaN
              ELSE IF SignOf(x) > 0 THEN PosInf ELSE NegInf
    ELSE FMul(x, FInv(y))

\* x + y.  Two finite non-zero values add when they share their radical;
\* the model's runs never add values that do not (FAdd is then undefined).
FAdd(x, y) ==
    IF IsNaN(x) \/ IsNaN(y) THEN NaN
    ELSE IF IsInf(x)
         THEN IF IsInf(y) /\ x.s # y.s THEN NaN ELSE x
    ELSE IF IsInf(y) THEN y
    ELSE IF IsZero(x) THEN y
    ELSE IF IsZero(y) THEN x
    ELSE CASE x.r = y.r -> Fin(x.n * y.d + y.n * x.d, x.d * y.d, x.r)

FNeg(x) ==
    IF IsNaN(x) THEN NaN
    ELSE IF IsInf(x) THEN [k |-> "inf", s |-> -x.s]
    ELSE [x EXCEPT !.n = -x.n]

FSub(x, y) == FAdd(x, FNeg(y))

\* math.Abs(x)
FAbs(x) ==
    IF IsNaN(x) THEN NaN
    ELSE IF IsInf(x) THEN PosInf
    ELSE [x EXCEPT !.n = Abs(x.n)]

\* x < y: false when either side is NaN.
FLess(x, y) ==
    IF IsNaN(x) \/ IsNaN(y) THEN FALSE
    ELSE IF y.k = "max" THEN IsFin(x) \/ (IsInf(x) /\ x.s < 0)
    ELSE IF x.k = "max" THEN IsInf(y) /\ y.s > 0
    ELSE IF IsInf(x) THEN x.s < 0 /\ ~(IsInf(y) /\ y.s < 0)
    ELSE IF IsInf(y) THEN y.s > 0
    ELSE IF x.r = y.r THEN x.n * y.d < y.n * x.d
    ELSE IF SignOf(x) # SignOf(y) THEN SignOf(x) < SignOf(y)
    ELSE LET a == x.n * x.n * x.r * y.d * y.d
             b == y.n * y.n * y.r * x.d * x.d
         IN  IF SignOf(x) > 0 THEN a < b ELSE b < a

\* x == y of the language: NaN equals nothing, itself included.
FEq(x, y) == ~IsNaN(x) /\ ~IsNaN(y) /\ x = y

\* math.Sqrt(x), for x rational (every radicand of the code is a sum of squares).
FSqrt(x) ==
    IF IsNaN(x) THEN NaN
    ELSE IF IsInf(x) THEN IF x.s > 0 THEN PosInf ELSE NaN
    ELSE IF x.n < 0 THEN NaN
    ELSE IF x.n = 0 THEN Zero64
    ELSE CASE x.r = 1 ->
            \* sqrt(n/d) = sn*sqrt(nr) / (sd*sqrt(dr)) = (sn / (sd*dr)) * sqrt(nr*dr)
            LET sn == SqPart(x.n)
                sd == SqPart(x.d)
                nr == x.n \div (sn * sn)
                dr == x.d \div (sd * sd)
            IN  [k |-> "fin", n |-> sn, d |-> sd * dr, r |-> nr * dr]

(***************************************************************************)
(* PlsaSample: [topicId, repTerms, norm]; repTerms is a map from the terms *)
(* the sample carries to their weights.  A map is ranged over in any       *)
(* order; the sums below are exact, so the order does not show.            *)
(***************************************************************************)
Terms == {"x", "y", "z"}

EmptyTerms == [t \in {} |-> Zero64]

PlsaSample(id, terms, norm) == [topicId |-> id, repTerms |-> terms, norm |-> norm]

\* The sum of g[t] over t in S, accumulated from 0.
RECURSIVE SumOver(_, _)
SumOver(g, S) ==
    IF S = {} THEN Zero64
    ELSE LET t == CHOOSE u \in S : TRUE
         IN  FAdd(g[t], SumOver(g, S \ {t}))

SumSq(terms) ==
    SumOver([t \in DOMAIN terms |-> FMul(terms[t], terms[t])], DOMAIN terms)

\* Normalize dividing by the sum of the squared weights.
NormalizeBySumSq(s) ==
    LET totalP == SumSq(s.repTerms)
    IN  [s EXCEPT !.repTerms = [t \in DOMAIN s.repTerms |-> FDiv(s.repTerms[t], totalP)],
                  !.norm = One64]

\* s.Normalize()
Normalize(s) ==
    LET totalP == SumOver(s.repTerms, DOMAIN s.repTerms)
    IN  [s EXCEPT !.repTerms = [t \in DOMAIN s.repTerms |-> FDiv(s.repTerms[t], totalP)],
                  !.norm = One64]

\* s.Id()
Id(s) == s.topicId

\* s.Equals(a)
SampleEquals(s, a) == s.topicId = a.topicId

\* s.Zero()
Zero(s) == PlsaSample(0, EmptyTerms, Zero64)

\* Add storing the weight of a in place of accumulating it.
AddOverwrite(s, a) ==
    [s EXCEPT !.repTerms =
        [t \in DOMAIN s.repTerms \cup DOMAIN a.repTerms |->
            IF t \in DOMAIN a.repTerms THEN a.repTerms[t] ELSE s.repTerms[t]]]

\* s.Add(a): the sample s after the call.
Add(s, a) ==
    [s EXCEPT !.repTerms =
        [t \in DOMAIN s.repTerms \cup DOMAIN a.repTerms |->
            IF t \in DOMAIN a.repTerms
            THEN FAdd(IF t \in DOMAIN s.repTerms THEN s.repTerms[t] ELSE Zero64,
                      a.repTerms[t])
            ELSE s.repTerms[t]]]

\* s.ScalarMul(a): the sample s after the call.
ScalarMul(s, a) ==
    [s EXCEPT !.repTerms = [t \in DOMAIN s.repTerms |-> FMul(s.repTerms[t], a)]]

\* The value s.Norm() returns.
Norm(s) ==
    IF FEq(s.norm, Zero64) THEN FSqrt(SumSq(s.repTerms)) ELSE s.norm

\* The sample s after s.Norm(): the value returned is cached.
AfterNorm(s) == [s EXCEPT !.norm = Norm(s)]

\* DistanceFrom with the first loop only: the terms both samples carry.
DistanceFromCommonOnly(s, a) ==
    LET S == DOMAIN s.repTerms
        A == DOMAIN a.repTerms
    IN  SumOver([t \in S \cap A |->
                    FMul(FSub(s.repTerms[t], a.repTerms[t]),
                         FSub(s.repTerms[t], a.repTerms[t]))], S \cap A)

\* DistanceFrom without the loop over the terms only a carries.
DistanceFromOneSided(s, a) ==
    LET S == DOMAIN s.repTerms
        A == DOMAIN a.repTerms
        common == SumOver([t \in S \cap A |->
                     FMul(FSub(s.repTerms[t], a.repTerms[t]),
                          FSub(s.repTerms[t], a.repTerms[t]))], S \cap A)
        onlyS == SumOver([t \in S \ A |-> FMul(s.repTerms[t], s.repTerms[t])], S \ A)
    IN  FAdd(common, onlyS)

\* s.DistanceFrom(a)
DistanceFrom(s, a) ==
    LET S == DOMAIN s.repTerms
        A == DOMAIN a.repTerms
        common == SumOver([t \in S \cap A |->
                     FMul(FSub(s.repTerms[t], a.repTerms[t]),
                          FSub(s.repTerms[t], a.repTerms[t]))], S \cap A)
        onlyS == SumOver([t \in S \ A |-> FMul(s.repTerms[t], s.repTerms[t])], S \ A)
        onlyA == SumOver([t \in A \ S |-> FMul(a.repTerms[t], a.repTerms[t])], A \ S)
    IN  FAdd(FAdd(common, onlyS), onlyA)

\* s.CosineSim(a)
CosineSim(s, a) ==
    LET both == DOMAIN s.repTerms \cap DOMAIN a.repTerms
        sDota == SumOver([t \in both |-> FMul(a.repTerms[t], s.repTerms[t])], both)
    IN  FDiv(sDota, FMul(Norm(s), Norm(a)))

(***************************************************************************)
(* The state of one clustering run, KMeanCluster(s, k) or                  *)
(* SphericalKMeanCluster(s, k), and of a sequence of calls on two samples. *)
(***************************************************************************)
VARIABLES
    samples,       \* PlsaSampleSupplier.samples; sample i is samples[i + 1]
    k,             \* the k of the call
    isSpherical,   \* TRUE for SphericalKMeanCluster
    pc,            \* where the run is
    clusters,      \* kMeanPlusPlus: clusters; kMean: clusters
    newClusters,   \* kMean: newClusters
    i,             \* kMeanPlusPlus: i
    ind,           \* kMeanPlusPlus: ind
    indList,       \* kMeanPlusPlus: the keys of indList that map to true
    result,        \* the cluster list returned
    panicMsg,      \* the runtime panic that ended the run
    seen,          \* history: the (samples, clusters) the iterations of kMean started from
    lastOp,        \* the last call made on a sample, what it returned, the state before it
    file,          \* Load: the bytes of the file, one string per byte
    offset,        \* ForEachLineInFile: how many bytes the reader has consumed
    calls,         \* history: the lines the processor of ForEachLineInFile was called with
    param,         \* TrainFromData: *param
    prev_likelihood, \* TrainFromData: prev_likelihood
    iter,          \* TrainFromData: iter
    emSteps        \* history: how many times the loop of TrainFromData ran eStep and mStep

loadVars == <<file, offset, calls>>

trainVars == <<param, prev_likelihood, iter, emSteps>>

vars == <<samples, k, isSpherical, pc, clusters, newClusters, i, ind, indList,
          result, panicMsg, seen, lastOp, loadVars, trainVars>>

runVars == <<k, isSpherical, pc, clusters, newClusters, i, ind, indList, result,
             panicMsg, seen, loadVars, trainVars>>

\* The corpus sizes, sample weights and values of k the runs are drawn from.
MaxSamples == 3
MaxWeight == 2

W1(t1, w1) == [t \in {t1} |-> F(w1)]
W2(t1, w1, t2, w2) == [t \in {t1, t2} |-> IF t = t1 THEN F(w1) ELSE F(w2)]

\* The weight maps of the corpus samples: overlapping and disjoint term sets,
\* and a sample whose only weight is 0.
SamplePool ==
    { W2("x", MaxWeight, "z", 1), W2("x", MaxWeight, "y", 1), W1("x", 1), W1("y", 0) }

SampleSize == Len(samples)

\* s.Sample(i): a pointer to samples[i], written as the index i.
Sample(n) == samples[n + 1]

\* A Cluster's Centroid holds a pointer: to a corpus sample, or to a sample
\* of the cluster's own that RecalcCentroid built.
SampleRef(n) == [tag |-> "sample", idx |-> n]
OwnRef(v) == [tag |-> "own", val |-> v]
Deref(c) == IF c.tag = "sample" THEN Sample(c.idx) ELSE c.val

Cluster(id, centroid, members) == [Id |-> id, Centroid |-> centroid, Members |-> members]

\* lastOp before any call.  arg is the factor of a ScalarMul and the argument
\* sample, as it was before the call, of an Add.
NoOp ==
    [op |-> "none", ret |-> Zero64, arg |-> Zero64,
     pre |-> PlsaSample(0, EmptyTerms, Zero64), prev |-> "none", n |-> 0]

Corpora ==
    UNION { [1..n -> SamplePool] : n \in 0..MaxSamples }

\* No file is being loaded.
NoLoad ==
    /\ file = <<>>
    /\ offset = 0
    /\ calls = <<>>

\* No model is being trained.
NoTraining ==
    /\ param = [LikelihoodIncLimit |-> Zero64, MaxIteration |-> 0]
    /\ prev_likelihood = Zero64
    /\ iter = 0
    /\ emSteps = 0

Init ==
    /\ \E c \in Corpora :
          samples = [n \in 1..Len(c) |-> PlsaSample(n - 1, c[n], Zero64)]
    /\ k \in (0 - 1)..(MaxSamples + 1)
    /\ isSpherical \in BOOLEAN
    /\ pc = "start"
    /\ clusters = <<>>
    /\ newClusters = <<>>
    /\ i = 1
    /\ ind = 0
    /\ indList = {}
    /\ result = <<>>
    /\ panicMsg = ""
    /\ seen = {}
    /\ lastOp = NoOp
    /\ NoLoad
    /\ NoTraining

(***************************************************************************)
(* kMeanPlusPlus                                                           *)
(***************************************************************************)
Panic(msg) ==
    /\ pc' = "panic"
    /\ panicMsg' = msg
    /\ UNCHANGED <<samples, k, isSpherical, clusters, newClusters, i, ind, indList,
                   result, seen, lastOp,
                   loadVars, trainVars>>

\* KMeanCluster and SphericalKMeanCluster up to the call of kMeanPlusPlus:
\* the spherical entry point normalizes every sample first.
Start ==
    /\ pc = "start"
    /\ samples' = IF isSpherical
                  THEN [n \in 1..SampleSize |-> Normalize(samples[n])]
                  ELSE samples
    /\ pc' = "seed"
    /\ UNCHANGED <<k, isSpherical, clusters, newClusters, i, ind, indList, result,
                   panicMsg, seen, lastOp,
                   loadVars, trainVars>>

\* The distance from sample to the nearest centroid of cls, from position j on.
RECURSIVE ShortestDistFrom(_, _, _, _)
ShortestDistFrom(sample, cls, j, shortestDist) ==
    IF j > Len(cls) THEN shortestDist
    ELSE LET d == DistanceFrom(sample, Deref(cls[j].Centroid))
         IN  ShortestDistFrom(sample, cls, j + 1,
                              IF FLess(d, shortestDist) THEN d ELSE shortestDist)

\* indexD as the inner loop of kMeanPlusPlus builds it, from sIndex on: one
\* entry for each index that is not in chosen, with the square of the
\* distance to the nearest centroid of cls.
RECURSIVE IndexDistsFrom(_, _, _)
IndexDistsFrom(cls, chosen, sIndex) ==
    IF sIndex >= SampleSize THEN <<>>
    ELSE (IF sIndex \in chosen THEN <<>>
          ELSE LET shortestDist == ShortestDistFrom(Sample(sIndex), cls, 1, MaxFloat64)
               IN  <<[index |-> sIndex, dist |-> FMul(shortestDist, shortestDist)]>>)
         \o IndexDistsFrom(cls, chosen, sIndex + 1)

IndexDists(cls, chosen) == IndexDistsFrom(cls, chosen, 0)

\* The first loop of normalizeIndexDist from position j on; prev is
\* indexD[j-1].dist as the loop left it.
RECURSIVE Cumulate(_, _, _)
Cumulate(indexD, j, prev) ==
    IF j > Len(indexD) THEN <<>>
    ELSE LET d == IF j > 1 THEN FAdd(indexD[j].dist, prev) ELSE indexD[j].dist
         IN  <<[index |-> indexD[j].index, dist |-> d]>> \o Cumulate(indexD, j + 1, d)

\* The second loop of normalizeIndexDist from position j on.
RECURSIVE DivideFrom(_, _, _)
DivideFrom(indexD, maxDist, j) ==
    IF j > Len(indexD) THEN <<>>
    ELSE <<[index |-> indexD[j].index, dist |-> FDiv(indexD[j].dist, maxDist)]>>
         \o DivideFrom(indexD, maxDist, j + 1)

\* normalizeIndexDist, for a non-empty indexD.
normalizeIndexDist(indexD) ==
    LET summed == Cumulate(indexD, 1, Zero64)
        maxDist == summed[Len(summed)].dist
    IN  DivideFrom(summed, maxDist, 1)

\* The index of the first entry of indexD whose dist exceeds newProb; the
\* index kept from the previous round when there is none.
RECURSIVE PickFrom(_, _, _, _)
PickFrom(indexD, newProb, j, kept) ==
    IF j > Len(indexD) THEN kept
    ELSE IF FLess(newProb, indexD[j].dist) THEN indexD[j].index
    ELSE PickFrom(indexD, newProb, j + 1, kept)

\* One value of rand.Float64() in each interval of [0, 1) that indexD cuts.
Draws(indexD) ==
    {Zero64} \cup
    { indexD[j].dist : j \in { m \in 1..Len(indexD) :
          FLess(Zero64, indexD[m].dist) /\ FLess(indexD[m].dist, One64) } }

AddCentroid(n) ==
    /\ ind' = n
    /\ clusters' = Append(clusters, Cluster(i, SampleRef(n), <<>>))
    /\ indList' = indList \cup {n}
    /\ i' = i + 1
    /\ UNCHANGED <<samples, k, isSpherical, pc, newClusters, result, panicMsg, seen,
                   lastOp,
                   loadVars, trainVars>>

\* The round i = 1 of kMeanPlusPlus: rand.Int() % s.SampleSize().
SeedFirst ==
    /\ pc = "seed"
    /\ i = 1
    /\ i <= k
    /\ IF SampleSize = 0
       THEN Panic("integer divide by zero")
       ELSE \E n \in 0..(SampleSize - 1) : AddCentroid(n)

\* A round i > 1 of kMeanPlusPlus.
SeedNext ==
    /\ pc = "seed"
    /\ i > 1
    /\ i <= k
    /\ LET indexD == IndexDists(clusters, indList)
       IN  IF Len(indexD) = 0
           THEN Panic("index out of range [-1]")
           ELSE LET norm == normalizeIndexDist(indexD)
                IN  \E newProb \in Draws(norm) :
                        AddCentroid(PickFrom(norm, newProb, 1, ind))

\* kMeanPlusPlus returns its clusters and kMean starts.
SeedReturn ==
    /\ pc = "seed"
    /\ i > k
    /\ pc' = "assign"
    /\ UNCHANGED <<samples, k, isSpherical, clusters, newClusters, i, ind, indList,
                   result, panicMsg, seen, lastOp,
                   loadVars, trainVars>>

(***************************************************************************)
(* kMean                                                                   *)
(***************************************************************************)
\* The loop of nearestCentroid moving to a later cluster on an equal score.
RECURSIVE NearestFromLaterTie(_, _, _, _, _, _)
NearestFromLaterTie(sample, cls, spherical, j, index, best) ==
    IF j > Len(cls) THEN index
    ELSE LET c == Deref(cls[j].Centroid)
             score == IF spherical THEN CosineSim(sample, c) ELSE DistanceFrom(sample, c)
             better == \/ FEq(best, score)
                       \/ IF spherical THEN FLess(best, score) ELSE FLess(score, best)
         IN  NearestFromLaterTie(sample, cls, spherical, j + 1,
                                 IF better THEN j - 1 ELSE index,
                                 IF better THEN score ELSE best)

\* nearestCentroid, from position j on; `index` and `best` (dist in Euclidean
\* mode, sim in spherical mode) are the running values of the loop.
RECURSIVE NearestFrom(_, _, _, _, _, _)
NearestFrom(sample, cls, spherical, j, index, best) ==
    IF j > Len(cls) THEN index
    ELSE LET c == Deref(cls[j].Centroid)
             score == IF spherical THEN CosineSim(sample, c) ELSE DistanceFrom(sample, c)
             better == IF spherical THEN FLess(best, score) ELSE FLess(score, best)
         IN  NearestFrom(sample, cls, spherical, j + 1,
                         IF better THEN j - 1 ELSE index,
                         IF better THEN score ELSE best)

\* nearestCentroid returning the position counted from 1.
nearestCentroidFromOne(sample, cls, spherical) ==
    NearestFrom(sample, cls, spherical, 1, 0, IF spherical THEN Zero64 ELSE MaxFloat64) + 1

nearestCentroid(sample, cls, spherical) ==
    NearestFrom(sample, cls, spherical, 1, 0, IF spherical THEN Zero64 ELSE MaxFloat64)

cloneClusterCentroids(cls) ==
    [j \in 1..Len(cls) |-> Cluster(cls[j].Id, cls[j].Centroid, <<>>)]

\* index := nearestCentroid(sample, clusters, isSpherical) for the samples
\* from index `from` on, in corpus order.
RECURSIVE NearestOfAll(_, _, _)
NearestOfAll(cls, spherical, from) ==
    IF from >= SampleSize THEN <<>>
    ELSE <<nearestCentroid(Sample(from), cls, spherical)>>
         \o NearestOfAll(cls, spherical, from + 1)

\* The samples from index `from` on that `nearest` sends to position `index`.
RECURSIVE AssignedTo(_, _, _)
AssignedTo(index, nearest, from) ==
    IF from >= Len(nearest) THEN <<>>
    ELSE (IF nearest[from + 1] = index THEN <<from>> ELSE <<>>)
         \o AssignedTo(index, nearest, from + 1)

\* The assignment loop adding every sample to the first cluster.
AssignAllToFirst(cls, spherical) ==
    [j \in 1..Len(cls) |->
        Cluster(cls[j].Id, cls[j].Centroid,
                IF j = 1 THEN AssignedTo(0, [n \in 1..SampleSize |-> 0], 0) ELSE <<>>)]

\* newClusters after the assignment loop: each sample is added, in corpus
\* order, to the cluster nearestCentroid names.
AssignAll(cls, spherical) ==
    LET nearest == NearestOfAll(cls, spherical, 0)
    IN  [j \in 1..Len(cls) |->
            Cluster(cls[j].Id, cls[j].Centroid, AssignedTo(j - 1, nearest, 0))]

\* CosineSim calls Norm() on the sample and on the centroid, which caches it.
NormCached(c) == IF c.tag = "own" THEN OwnRef(AfterNorm(c.val)) ELSE c

\* One assignment pass of kMean.  With no cluster, newClusters[0] is out of range.
Assign ==
    /\ pc = "assign"
    /\ IF SampleSize > 0 /\ Len(clusters) = 0
       THEN Panic("index out of range [0] with length 0")
       ELSE LET touched == isSpherical /\ SampleSize > 0
                cached == [j \in 1..Len(clusters) |->
                             [clusters[j] EXCEPT !.Centroid = NormCached(@)]]
            IN  /\ newClusters' = AssignAll(IF touched THEN cached ELSE clusters,
                                            isSpherical)
                /\ clusters' = IF touched THEN cached ELSE clusters
                /\ samples' = IF touched
                              THEN [n \in 1..SampleSize |-> AfterNorm(samples[n])]
                              ELSE samples
                /\ seen' = seen \cup {<<samples, clusters>>}
                /\ pc' = "update"
                /\ UNCHANGED <<k, isSpherical, i, ind, indList, result, panicMsg, lastOp,
                   loadVars, trainVars>>

\* z after z.Add(m) for the members from position j on.
RECURSIVE AddMembers(_, _, _)
AddMembers(z, members, j) ==
    IF j > Len(members) THEN z
    ELSE AddMembers(Add(z, Sample(members[j])), members, j + 1)

\* Zero handing back its receiver in place of a new sample.
ZeroOfSelf(ref) == ref

\* z := c.Centroid.Zero(): a pointer to a new sample, which no cluster and
\* no corpus slot holds.
ZeroOf(ref) == OwnRef(Zero(Deref(ref)))

\* The sample z points to at the end of RecalcCentroid: the members added,
\* scaled by 1/len(c.Members) and, in spherical mode, by 1/z.Norm().
Recalculated(c, spherical) ==
    LET z0 == AddMembers(Deref(ZeroOf(c.Centroid)), c.Members, 1)
        z1 == ScalarMul(z0, FDiv(One64, F(Len(c.Members))))
    IN  IF spherical
        THEN ScalarMul(AfterNorm(z1), FDiv(One64, Norm(z1)))
        ELSE z1

\* Cluster.RecalcCentroid: the cluster after the call.
RecalcCentroid(c, spherical) ==
    LET z == ZeroOf(c.Centroid)
    IN  [c EXCEPT !.Centroid =
            IF z.tag = "own" THEN OwnRef(Recalculated(c, spherical)) ELSE z]

\* The corpus after the update loop: z.Add and z.ScalarMul write to the
\* sample z points to, which is a corpus sample only if Zero returned one.
UpdatedSample(n, cls, spherical) ==
    LET onto == { j \in 1..Len(cls) : ZeroOf(cls[j].Centroid) = SampleRef(n) }
    IN  IF onto = {} THEN Sample(n)
        ELSE Recalculated(cls[CHOOSE j \in onto : TRUE], spherical)

\* The update loop of kMean.
Update ==
    /\ pc = "update"
    /\ newClusters' = [j \in 1..Len(newClusters) |->
                          RecalcCentroid(newClusters[j], isSpherical)]
    /\ samples' = [n \in 1..SampleSize |->
                      UpdatedSample(n - 1, newClusters, isSpherical)]
    /\ pc' = "check"
    /\ UNCHANGED <<k, isSpherical, clusters, i, ind, indList, result,
                   panicMsg, seen, lastOp,
                   loadVars, trainVars>>

\* The comparison of the generations answering "equal" whatever they hold.
clustersAlwaysEqual == TRUE

\* Cluster.Contains
Contains(c, b) ==
    \A u \in 1..Len(b.Members) :
        \E v \in 1..Len(c.Members) :
            SampleEquals(Sample(b.Members[u]), Sample(c.Members[v]))

\* Equals checking one direction only: c holds every member of b.
ClusterEqualsOneWay(c, b) == Contains(c, b)

\* Cluster.Equals
ClusterEquals(c, b) == Contains(c, b) /\ Contains(b, c)

clustersAreEqual ==
    \A j \in 1..Len(newClusters) : ClusterEquals(newClusters[j], clusters[j])

\* The convergence check of kMean: return, or go round again.
Check ==
    /\ pc = "check"
    /\ IF clustersAreEqual
       THEN /\ pc' = "done"
            /\ result' = clusters
            /\ UNCHANGED clusters
       ELSE /\ pc' = "assign"
            /\ clusters' = newClusters
            /\ UNCHANGED result
    /\ UNCHANGED <<samples, k, isSpherical, newClusters, i, ind, indList, panicMsg,
                   seen, lastOp,
                   loadVars, trainVars>>

Next ==
    \/ Start
    \/ SeedFirst
    \/ SeedNext
    \/ SeedReturn
    \/ Assign
    \/ Update
    \/ Check

Spec == Init /\ [][Next]_vars

(***************************************************************************)
(* Calls on two samples: s, the receiver (samples[1]), and a, the argument *)
(* (samples[2]).  lastOp records the call just made: its name, the value   *)
(* it returned, the receiver before the call and the call made before it.  *)
(***************************************************************************)
MaxOps == 3
MaxVecWeight == 2

VecTerms == {"x", "y"}

\* Every weight map over a subset of VecTerms with weights 0..MaxVecWeight.
VecPool ==
    UNION { [D -> {F(w) : w \in 0..MaxVecWeight}] : D \in SUBSET VecTerms }

\* The factors ScalarMul is called with.
Factors == {Ratio(1, 2), F(2)}

Called(name, ret, arg) ==
    [op |-> name, ret |-> ret, arg |-> arg, pre |-> samples[1],
     prev |-> lastOp.op, n |-> lastOp.n + 1]

CanCall == lastOp.n < MaxOps

InitVec ==
    /\ \E ts \in VecPool, ta \in VecPool :
          samples = <<PlsaSample(0, ts, Zero64), PlsaSample(1, ta, Zero64)>>
    /\ k = 0
    /\ isSpherical = FALSE
    /\ pc = "calls"
    /\ clusters = <<>>
    /\ newClusters = <<>>
    /\ i = 1
    /\ ind = 0
    /\ indList = {}
    /\ result = <<>>
    /\ panicMsg = ""
    /\ seen = {}
    /\ lastOp = NoOp
    /\ NoLoad
    /\ NoTraining

CallNorm ==
    /\ CanCall
    /\ lastOp' = Called("Norm", Norm(samples[1]), Zero64)
    /\ samples' = [samples EXCEPT ![1] = AfterNorm(@)]
    /\ UNCHANGED runVars

CallNormalize ==
    /\ CanCall
    /\ lastOp' = Called("Normalize", Zero64, Zero64)
    /\ samples' = [samples EXCEPT ![1] = Normalize(@)]
    /\ UNCHANGED runVars

CallAdd ==
    /\ CanCall
    /\ lastOp' = Called("Add", Zero64, samples[2])
    /\ samples' = [samples EXCEPT ![1] = Add(@, samples[2])]
    /\ UNCHANGED runVars

CallScalarMul ==
    /\ CanCall
    /\ \E f \in Factors :
          /\ lastOp' = Called("ScalarMul", Zero64, f)
          /\ samples' = [samples EXCEPT ![1] = ScalarMul(@, f)]
    /\ UNCHANGED runVars

CallDistanceFrom ==
    /\ CanCall
    /\ lastOp' = Called("DistanceFrom", DistanceFrom(samples[1], samples[2]), Zero64)
    /\ UNCHANGED samples
    /\ UNCHANGED runVars

CallCosineSim ==
    /\ CanCall
    /\ lastOp' = Called("CosineSim", CosineSim(samples[1], samples[2]), Zero64)
    /\ samples' = [n \in 1..2 |-> AfterNorm(samples[n])]
    /\ UNCHANGED runVars

NextVec ==
    \/ CallNorm
    \/ CallNormalize
    \/ CallAdd
    \/ CallScalarMul
    \/ CallDistanceFrom
    \/ CallCosineSim

SpecVec == InitVec /\ [][NextVec]_vars

(***************************************************************************)
(* Cluster statistics: PairwiseConsineSimStats on the cluster c             *)
(* (clusters[1]) and InterClusterConsineSimStats on c and d (clusters[2]).  *)
(* lastOp records the call and the (avg, stdev) it returned.               *)
(***************************************************************************)
MaxStatSamples == 4

\* The weight maps of the members: their Euclidean norms are 5 and 1, so the
\* cosine similarities and their sums are rational.
StatPool ==
    { W2("x", 3, "y", 4), W2("x", 4, "y", 3), W1("x", 1), W1("y", 1) }

\* The indexes from..to, in order.
RECURSIVE Range(_, _)
Range(from, to) == IF from > to THEN <<>> ELSE <<from>> \o Range(from + 1, to)

InitStats ==
    /\ \E n \in 1..MaxStatSamples :
          \E c \in [1..n -> StatPool], m \in 0..n :
              /\ samples = [j \in 1..n |-> PlsaSample(j - 1, c[j], Zero64)]
              /\ clusters = << Cluster(1, OwnRef(PlsaSample(0, EmptyTerms, Zero64)),
                                       Range(0, m - 1)),
                               Cluster(2, OwnRef(PlsaSample(0, EmptyTerms, Zero64)),
                                       Range(m, n - 1)) >>
    /\ k = 2
    /\ isSpherical = FALSE
    /\ pc = "stats"
    /\ newClusters = <<>>
    /\ i = 1
    /\ ind = 0
    /\ indList = {}
    /\ result = <<>>
    /\ panicMsg = ""
    /\ seen = {}
    /\ lastOp = NoOp
    /\ NoLoad
    /\ NoTraining

\* sim after the loops of PairwiseConsineSimStats from (a, b) on: the
\* similarity of members a and b for a < b, a ascending, then b ascending.
RECURSIVE PairSims(_, _, _)
PairSims(members, a, b) ==
    IF a > Len(members) THEN <<>>
    ELSE IF b > Len(members) THEN PairSims(members, a + 1, a + 2)
    ELSE <<CosineSim(Sample(members[a]), Sample(members[b]))>>
         \o PairSims(members, a, b + 1)

\* sim after the loops of InterClusterConsineSimStats from (a, b) on.
RECURSIVE CrossSims(_, _, _, _)
CrossSims(cM, dM, a, b) ==
    IF a > Len(cM) THEN <<>>
    ELSE IF b > Len(dM) THEN CrossSims(cM, dM, a + 1, 1)
    ELSE <<CosineSim(Sample(cM[a]), Sample(dM[b]))>> \o CrossSims(cM, dM, a, b + 1)

\* total += s over sim, from position j on.
RECURSIVE Total(_, _, _)
Total(sim, j, total) ==
    IF j > Len(sim) THEN total ELSE Total(sim, j + 1, FAdd(total, sim[j]))

\* dev += (s - avg) * (s - avg) over sim, from position j on.
RECURSIVE Dev(_, _, _, _)
Dev(sim, avg, j, dev) ==
    IF j > Len(sim) THEN dev
    ELSE Dev(sim, avg, j + 1, FAdd(dev, FMul(FSub(sim[j], avg), FSub(sim[j], avg))))

\* c.PairwiseConsineSimStats()
PairwiseConsineSimStats(c) ==
    LET sim == PairSims(c.Members, 1, 2)
        n == Len(c.Members)
        avg == FDiv(Total(sim, 1, Zero64), F(n))
    IN  [avg |-> avg, stdev |-> FSqrt(Dev(sim, avg, 1, Zero64))]

\* c.InterClusterConsineSimStats(d)
InterClusterConsineSimStats(c, d) ==
    LET sim == CrossSims(c.Members, d.Members, 1, 1)
        avg == FDiv(Total(sim, 1, Zero64), F(Len(c.Members) * Len(d.Members)))
    IN  [avg |-> avg, stdev |-> FSqrt(Dev(sim, avg, 1, Zero64))]

\* The corpus after CosineSim was called on the members named in S: Norm()
\* has cached their norms.
NormsCached(S) ==
    [n \in 1..SampleSize |-> IF (n - 1) \in S THEN AfterNorm(samples[n]) ELSE samples[n]]

CallPairwiseStats ==
    /\ pc = "stats"
    /\ lastOp.op = "none"
    /\ lastOp' = Called("PairwiseConsineSimStats", PairwiseConsineSimStats(clusters[1]),
                        Zero64)
    /\ samples' = NormsCached(IF Len(clusters[1].Members) >= 2
                              THEN { clusters[1].Members[m] :
                                        m \in 1..Len(clusters[1].Members) }
                              ELSE {})
    /\ UNCHANGED runVars

CallInterClusterStats ==
    /\ pc = "stats"
    /\ lastOp.op = "none"
    /\ lastOp' = Called("InterClusterConsineSimStats",
                        InterClusterConsineSimStats(clusters[1], clusters[2]), Zero64)
    /\ samples' = NormsCached(IF Len(clusters[1].Members) >= 1
                                 /\ Len(clusters[2].Members) >= 1
                              THEN 0..(SampleSize - 1)
                              ELSE {})
    /\ UNCHANGED runVars

NextStats ==
    \/ CallPairwiseStats
    \/ CallInterClusterStats

SpecStats == InitStats /\ [][NextStats]_vars

(***************************************************************************)
(* TrainFromData (src/src/plsa/plsa.go): the EM loop.  eStep, mStep and    *)
(* Likelihood compute the likelihood of the iteration from the data and    *)
(* the random initial model; the loop reads nothing else of them, and the  *)
(* model draws that likelihood from Likelihoods.                           *)
(***************************************************************************)
MaxIterationBound == 2
MaxEmSteps == 4

\* The values Likelihood can return: a sum of count * log(p), which is
\* -Inf when some p is 0 and NaN when some p is NaN.
Likelihoods == {F(0 - 4), F(0 - 2), F(0 - 1), Zero64, NegInf, NaN}

\* The values of param.LikelihoodIncLimit.
IncLimits == {Zero64, Ratio(1, 2)}

InitTrain ==
    /\ param \in [LikelihoodIncLimit : IncLimits, MaxIteration : 0..MaxIterationBound]
    /\ prev_likelihood = Zero64
    /\ iter = 0
    /\ emSteps = 0
    /\ pc = "train"
    /\ samples = <<>>
    /\ k = 0
    /\ isSpherical = FALSE
    /\ clusters = <<>>
    /\ newClusters = <<>>
    /\ i = 1
    /\ ind = 0
    /\ indList = {}
    /\ result = <<>>
    /\ panicMsg = ""
    /\ seen = {}
    /\ lastOp = NoOp
    /\ NoLoad

\* likelihood_improvement
Improvement(likelihood, prev) == FAbs(FDiv(FSub(likelihood, prev), prev))

\* iter >= param.MaxIteration
MaxIterationReached == iter >= param.MaxIteration

\* One pass of the loop of TrainFromData: eStep, mStep, Likelihood and the
\* two tests that leave the loop.  No statement of the loop assigns iter.
EmIteration ==
    /\ pc = "train"
    /\ emSteps < MaxEmSteps
    /\ emSteps' = emSteps + 1
    /\ \E likelihood \in Likelihoods :
          IF FLess(Improvement(likelihood, prev_likelihood), param.LikelihoodIncLimit)
          THEN /\ pc' = "trained"
               /\ UNCHANGED prev_likelihood
          ELSE /\ prev_likelihood' = likelihood
               /\ pc' = IF MaxIterationReached THEN "trained" ELSE "train"
    /\ UNCHANGED <<param, iter>>
    /\ UNCHANGED <<samples, k, isSpherical, clusters, newClusters, i, ind, indList,
                   result, panicMsg, seen, lastOp, loadVars>>

NextTrain == EmIteration

SpecTrain == InitTrain /\ [][NextTrain]_vars

(***************************************************************************)
(* PlsaSampleSupplier.Load and ForEachLineInFile (src/src/kmean/hioutil.go).*)
(* The file is its sequence of bytes, one one-character string each; a     *)
(* line, a field and a term are sequences of such strings.                 *)
(***************************************************************************)
MaxLines == 2

\* "0 1 x 1", "1 1 x 2 y 1": an id, a weight, then term and weight pairs.
LineOfFour == <<"0", " ", "1", " ", "x", " ", "1">>
LineOfSix == <<"1", " ", "1", " ", "x", " ", "2", " ", "y", " ", "1">>
\* "0 1 x": fewer than 4 fields.
LineOfThree == <<"0", " ", "1", " ", "x">>
\* "1 1 x 1 y": a term without its weight.
LineOfFive == <<"1", " ", "1", " ", "x", " ", "1", " ", "y">>
\* " 2 1 y w ": spaces around the line, a weight that is no number.
LineBadWeight == <<" ", "2", " ", "1", " ", "y", " ", "w", " ">>

LinePool == {LineOfFour, LineOfSix, LineOfThree, LineOfFive, LineBadWeight, <<>>}

\* The bytes of a file with the lines ls; the last line ends with a newline
\* only if terminated.
RECURSIVE FileOf(_, _)
FileOf(ls, terminated) ==
    IF ls = <<>> THEN <<>>
    ELSE IF Len(ls) = 1 THEN ls[1] \o (IF terminated THEN <<"\n">> ELSE <<>>)
    ELSE ls[1] \o <<"\n">> \o FileOf(Tail(ls), terminated)

InitLoad ==
    /\ \E n \in 0..MaxLines :
          \E ls \in [1..n -> LinePool], terminated \in BOOLEAN :
              file = FileOf(ls, terminated)
    /\ offset = 0
    /\ calls = <<>>
    /\ samples = <<>>
    /\ pc = "load"
    /\ k = 0
    /\ isSpherical = FALSE
    /\ clusters = <<>>
    /\ newClusters = <<>>
    /\ i = 1
    /\ ind = 0
    /\ indList = {}
    /\ result = <<>>
    /\ panicMsg = ""
    /\ seen = {}
    /\ lastOp = NoOp
    /\ NoTraining

\* The first position from j on where str holds the byte c; 0 if none does.
RECURSIVE IndexOf(_, _, _)
IndexOf(str, c, j) ==
    IF j > Len(str) THEN 0
    ELSE IF str[j] = c THEN j
    ELSE IndexOf(str, c, j + 1)

\* strings.Split(str, sep) for a separator of one byte.
RECURSIVE Split(_, _)
Split(str, sep) ==
    LET at == IndexOf(str, sep, 1)
    IN  IF at = 0 THEN <<str>>
        ELSE <<SubSeq(str, 1, at - 1)>> \o Split(SubSeq(str, at + 1, Len(str)), sep)

RECURSIVE TrimLeft(_, _)
TrimLeft(str, cutset) ==
    IF str # <<>> /\ str[1] \in cutset THEN TrimLeft(Tail(str), cutset) ELSE str

RECURSIVE TrimRight(_, _)
TrimRight(str, cutset) ==
    IF str # <<>> /\ str[Len(str)] \in cutset
    THEN TrimRight(SubSeq(str, 1, Len(str) - 1), cutset)
    ELSE str

\* strings.Trim(str, cutset)
Trim(str, cutset) == TrimRight(TrimLeft(str, cutset), cutset)

Digits == {"0", "1", "2"}

DigitValue(c) == IF c = "0" THEN 0 ELSE IF c = "1" THEN 1 ELSE 2

\* strconv.ParseInt and strconv.ParseFloat return no error: of the fields the
\* files hold, on those made of digits.
IsNumber(field) == field # <<>> /\ \A j \in 1..Len(field) : field[j] \in Digits

\* The value of a field made of digits, from position j on.
RECURSIVE NumberFrom(_, _, _)
NumberFrom(field, j, acc) ==
    IF j > Len(field) THEN acc
    ELSE NumberFrom(field, j + 1, 10 * acc + DigitValue(field[j]))

\* strconv.ParseInt(field, 10, 64): 0 comes with an error.
ParseInt(field) == IF IsNumber(field) THEN NumberFrom(field, 1, 0) ELSE 0

\* strconv.ParseFloat(field, 64), for a field that is a number.
ParseFloat(field) == F(NumberFrom(field, 1, 0))

\* The loop of Load over the fields, from index j on (fields[j] is
\* fields[j + 1] here): repTerms at its end, or a panic when fields[j+1] is
\* out of range.
RECURSIVE LoadTerms(_, _, _)
LoadTerms(fields, j, repTerms) ==
    IF j >= Len(fields) THEN [panic |-> FALSE, repTerms |-> repTerms]
    ELSE IF j + 1 >= Len(fields) THEN [panic |-> TRUE, repTerms |-> repTerms]
    ELSE LoadTerms(fields, j + 2,
            IF IsNumber(fields[j + 2])
            THEN [t \in DOMAIN repTerms \cup {fields[j + 1]} |->
                     IF t = fields[j + 1] THEN ParseFloat(fields[j + 2]) ELSE repTerms[t]]
            ELSE repTerms)

\* reader.ReadString('\n') found a newline: the processor, the function Load
\* passes, is called with the trimmed line; it appends a sample when the
\* line has at least 4 fields, and returns true.
ReadLine ==
    /\ pc = "load"
    /\ IndexOf(file, "\n", offset + 1) # 0
    /\ LET at == IndexOf(file, "\n", offset + 1)
           line == Trim(SubSeq(file, offset + 1, at), {" ", "\n"})
           fields == Split(line, " ")
           loaded == LoadTerms(fields, 2, EmptyTerms)
       IN  /\ offset' = at
           /\ calls' = Append(calls, line)
           /\ IF Len(fields) < 4
              THEN UNCHANGED <<samples, pc, panicMsg>>
              ELSE IF loaded.panic
              THEN /\ pc' = "panic"
                   /\ panicMsg' = "index out of range"
                   /\ UNCHANGED samples
              ELSE /\ samples' = Append(samples,
                                   PlsaSample(ParseInt(fields[1]), loaded.repTerms, Zero64))
                   /\ UNCHANGED <<pc, panicMsg>>
    /\ UNCHANGED <<file, k, isSpherical, clusters, newClusters, i, ind, indList, result,
                   seen, lastOp, trainVars>>

\* reader.ReadString('\n') reached the end of the file before a newline: it
\* returns the bytes read with an error, and the loop breaks.
ReadEnd ==
    /\ pc = "load"
    /\ IndexOf(file, "\n", offset + 1) = 0
    /\ offset' = Len(file)
    /\ pc' = "loaded"
    /\ UNCHANGED <<samples, file, calls, k, isSpherical, clusters, newClusters, i, ind,
                   indList, result, panicMsg, seen, lastOp, trainVars>>

NextLoad ==
    \/ ReadLine
    \/ ReadEnd

SpecLoad == InitLoad /\ [][NextLoad]_vars

(***************************************************************************)
(* Claims about a clustering run (Spec).                                   *)
(***************************************************************************)
ValidParams == 1 <= k /\ k <= SampleSize

\* kMeanPlusPlus is about to return.
SeederReturns == pc = "seed" /\ i > k

\* C1: for 1 <= k <= corpus size and any random draws, kMeanPlusPlus returns
\* exactly k clusters and no corpus index is the centroid of two of them.
C1_SeedsDistinct ==
    (SeederReturns /\ ValidParams) =>
        /\ Len(clusters) = k
        /\ \A a, b \in 1..Len(clusters) :
              a # b => clusters[a].Centroid.idx # clusters[b].Centroid.idx

\* How many times sample n is a member of a cluster of cls.
TimesMember(cls, n) ==
    Cardinality({ jm \in { <<j, m>> : j \in 1..Len(cls), m \in 1..SampleSize } :
                      /\ jm[2] <= Len(cls[jm[1]].Members)
                      /\ cls[jm[1]].Members[jm[2]] = n })

\* C2: after the assignment pass of an iteration (k >= 1, either mode) every
\* corpus sample is a member of exactly one cluster of the new generation.
C2_Partition ==
    (pc \in {"update", "check"} /\ k >= 1) =>
        /\ \A n \in 0..(SampleSize - 1) : TimesMember(newClusters, n) = 1
        /\ \A j \in 1..Len(newClusters) :
              \A m \in 1..Len(newClusters[j].Members) :
                  newClusters[j].Members[m] \in 0..(SampleSize - 1)

\* A spherical run whose assignment pass has spread three samples over two
\* clusters.
C2_Witness ==
    /\ pc = "update"
    /\ isSpherical
    /\ SampleSize = 3
    /\ k >= 2
    /\ Len(newClusters[1].Members) > 0
    /\ Len(newClusters[2].Members) > 0

\* C3: for 1 <= k <= corpus size the loop of kMean reaches an iteration whose
\* memberships equal the previous ones, and returns.  An iteration is a
\* function of the samples, of clusters and of the mode, so a run returns
\* exactly when no iteration starts from the samples and clusters an earlier
\* iteration started from.
C3_Terminates ==
    (pc = "assign" /\ ValidParams) => <<samples, clusters>> \notin seen

InvalidParams == k <= 0 \/ k > SampleSize \/ SampleSize = 0

\* C4: with k <= 0, k > corpus size or an empty corpus the run fails before a
\* centroid is drawn and before an iteration starts: it draws no centroid,
\* starts no assignment pass, does not panic and returns no cluster list.
C4_InvalidParamsRejected ==
    InvalidParams =>
        /\ clusters = <<>>
        /\ pc \in {"start", "seed"}

\* C5: the update step leaves the centroid of a cluster that ended the
\* assignment pass without members as it was (or the run fails): it is never
\* replaced by a value computed from no member.
C5_EmptyClusterKeepsCentroid ==
    pc = "check" =>
        \A j \in 1..Len(newClusters) :
            Len(newClusters[j].Members) = 0 =>
                newClusters[j].Centroid = clusters[j].Centroid

\* The indexes of the samples that are members of cluster c.
MemberSet(c) == { c.Members[m] : m \in 1..Len(c.Members) }

AllSamples == 0..(SampleSize - 1)

\* C15: with k = 1 and a non-empty corpus the seeder returns one cluster, its
\* centroid the corpus sample drawn first and its membership empty; after
\* the assignment pass of each iteration that cluster holds every corpus
\* sample, each once; the run does not panic, never starts an iteration from
\* where an earlier one started (it converges), and the single cluster it
\* returns holds the whole corpus.
C15_SingleCluster ==
    (k = 1 /\ SampleSize >= 1) =>
        /\ pc # "panic"
        /\ SeederReturns =>
              /\ Len(clusters) = 1
              /\ ind \in AllSamples
              /\ clusters[1].Centroid = SampleRef(ind)
              /\ clusters[1].Members = <<>>
        /\ pc \in {"update", "check"} =>
              /\ Len(newClusters) = 1
              /\ MemberSet(newClusters[1]) = AllSamples
              /\ Len(newClusters[1].Members) = SampleSize
        /\ pc = "assign" => <<samples, clusters>> \notin seen
        /\ pc = "done" =>
              /\ Len(result) = 1
              /\ MemberSet(result[1]) = AllSamples
              /\ Len(result[1].Members) = SampleSize

\* A run with k = 1 over three samples has returned, its second sample drawn
\* as the seed.
C15_Witness ==
    /\ pc = "done"
    /\ k = 1
    /\ SampleSize = 3
    /\ ind = 1
    /\ Len(result) = 1
    /\ MemberSet(result[1]) = AllSamples

\* C16: no step of a run changes the number of corpus samples, and no step
\* other than the normalization pass SphericalKMeanCluster starts with
\* changes a weight of a corpus sample: the centroid update works on a
\* sample of its own.
C16_CorpusWeightsKept ==
    [][ /\ Len(samples') = Len(samples)
        /\ (pc # "start" \/ ~isSpherical) =>
              \A n \in 1..Len(samples) : samples'[n].repTerms = samples[n].repTerms ]_vars

\* The update step has replaced a centroid that was a corpus sample, a member
\* of its own cluster, by a sample with other weights.
C16_Witness ==
    /\ pc = "check"
    /\ \E j \in 1..Len(newClusters) :
          /\ clusters[j].Centroid.tag = "sample"
          /\ newClusters[j].Centroid.tag = "own"
          /\ clusters[j].Centroid.idx \in MemberSet(newClusters[j])
          /\ newClusters[j].Centroid.val.repTerms
                # Sample(clusters[j].Centroid.idx).repTerms

\* The DistanceFrom value from sample n to its nearest centroid of clusters.
NearestDist(n) ==
    LET ds == { DistanceFrom(Sample(n), Deref(clusters[j].Centroid)) :
                    j \in 1..Len(clusters) }
    IN  CHOOSE d \in ds : \A e \in ds : ~FLess(e, d)

\* The sum of NearestDist over the not yet chosen indices 0..n.
RECURSIVE CumulativeDist(_)
CumulativeDist(n) ==
    IF n < 0 THEN Zero64
    ELSE FAdd(CumulativeDist(n - 1),
              IF n \in indList THEN Zero64 ELSE NearestDist(n))

\* A round i > 1 of kMeanPlusPlus is about to run, with candidates whose
\* distances to the chosen centroids are numbers and not all 0.
SeedingRound ==
    /\ pc = "seed"
    /\ i > 1
    /\ i <= k
    /\ indList # 0..(SampleSize - 1)
    /\ \A n \in 0..(SampleSize - 1) : IsFin(NearestDist(n))
    /\ FLess(Zero64, CumulativeDist(SampleSize - 1))

\* C21: in a round after the first, the cumulative value kMeanPlusPlus
\* compares with the uniform draw is, for every not yet chosen index, the sum
\* of the DistanceFrom values to the nearest chosen centroid over the
\* candidates up to it in corpus order, divided by the sum over all
\* candidates; so a candidate is picked with probability proportional to its
\* squared distance to the nearest chosen centroid.
C21_SeedWeightsAreSquaredDistances ==
    SeedingRound =>
        LET norm == normalizeIndexDist(IndexDists(clusters, indList))
        IN  \A j \in 1..Len(norm) :
                norm[j].dist = FDiv(CumulativeDist(norm[j].index),
                                    CumulativeDist(SampleSize - 1))

\* The score nearestCentroid computes for sample n and the cluster at
\* position j of clusters.
Score(n, j) ==
    IF isSpherical
    THEN CosineSim(Sample(n), Deref(clusters[j].Centroid))
    ELSE DistanceFrom(Sample(n), Deref(clusters[j].Centroid))

\* Score a is strictly better than score b in the mode of the run.
Better(a, b) == IF isSpherical THEN FLess(b, a) ELSE FLess(a, b)

\* C22: for every sample and every non-empty cluster list, nearestCentroid
\* returns the index of a cluster that no cluster beats: none has a smaller
\* DistanceFrom value in Euclidean mode, none a greater CosineSim value in
\* spherical mode; and no cluster of a lower index has the same score.
C22_NearestIsBestLowestIndex ==
    (pc = "update" /\ Len(clusters) >= 1) =>
        \A n \in 0..(SampleSize - 1) :
            LET r == nearestCentroid(Sample(n), clusters, isSpherical) + 1
            IN  /\ r \in 1..Len(clusters)
                /\ \A j \in 1..Len(clusters) : ~Better(Score(n, j), Score(n, r))
                /\ \A j \in 1..(r - 1) : ~FEq(Score(n, j), Score(n, r))

\* An assignment pass has run in which a sample at the same distance from
\* two centroids went to the first, and another sample went to the second.
C22_Witness ==
    /\ pc = "update"
    /\ Len(clusters) >= 2
    /\ \E n, m \in 0..(SampleSize - 1) :
          /\ nearestCentroid(Sample(n), clusters, isSpherical) = 0
          /\ FEq(Score(n, 1), Score(n, 2))
          /\ nearestCentroid(Sample(m), clusters, isSpherical) = 1
          /\ Better(Score(m, 2), Score(m, 1))

(***************************************************************************)
(* Claims about the calls on a sample (SpecVec).                           *)
(***************************************************************************)
\* A weight map with no weight other than 0 (or no term at all).
AllZero(terms) == \A t \in DOMAIN terms : IsZero(terms[t])

\* A weight map with a weight other than 0.
NonZero(terms) == \E t \in DOMAIN terms : IsFin(terms[t]) /\ ~IsZero(terms[t])

EuclideanNorm(terms) == FSqrt(SumSq(terms))

\* C6: Normalize() on a sample whose weights are all zero, or that has no
\* term, does not return leaving NaN weights or a cached norm of 1.0.
\* (Normalize has no error result and divides floats, which does not panic:
\* it returns from every call.)
C6_NormalizeZeroFails ==
    (lastOp.op = "Normalize" /\ AllZero(lastOp.pre.repTerms)) =>
        /\ \A t \in DOMAIN samples[1].repTerms : ~IsNaN(samples[1].repTerms[t])
        /\ samples[1].norm # One64

\* C7: after any sequence of Norm, Add, ScalarMul and Normalize calls, Norm()
\* returns the Euclidean norm of the weights the sample has then.
C7_NormIsCurrent ==
    lastOp.op = "Norm" => FEq(lastOp.ret, EuclideanNorm(samples[1].repTerms))

\* C8: Normalize() on a non-zero sample divides every weight by the
\* Euclidean norm the weights had; afterwards the squared weights sum to 1
\* and Norm() returns 1.0.
C8_NormalizeScalesByNorm ==
    (lastOp.op = "Normalize" /\ NonZero(lastOp.pre.repTerms)) =>
        /\ \A t \in DOMAIN samples[1].repTerms :
              FEq(samples[1].repTerms[t],
                  FDiv(lastOp.pre.repTerms[t], EuclideanNorm(lastOp.pre.repTerms)))
        /\ FEq(SumSq(samples[1].repTerms), One64)
        /\ FEq(Norm(samples[1]), One64)

\* C9: a second Normalize() right after a first one, on a non-zero sample,
\* changes no weight and not the value Norm() returns.
C9_NormalizeIdempotent ==
    (lastOp.op = "Normalize" /\ lastOp.prev = "Normalize"
        /\ NonZero(lastOp.pre.repTerms)) =>
        /\ DOMAIN samples[1].repTerms = DOMAIN lastOp.pre.repTerms
        /\ \A t \in DOMAIN samples[1].repTerms :
              FEq(samples[1].repTerms[t], lastOp.pre.repTerms[t])
        /\ FEq(Norm(samples[1]), Norm(lastOp.pre))

\* Normalize() called twice in a row on a sample with two non-zero weights
\* that the first call changed.
C9_Witness ==
    /\ lastOp.op = "Normalize"
    /\ lastOp.prev = "Normalize"
    /\ lastOp.n = 2
    /\ \A t \in VecTerms :
          /\ t \in DOMAIN lastOp.pre.repTerms
          /\ FLess(Zero64, lastOp.pre.repTerms[t])
          /\ FLess(lastOp.pre.repTerms[t], One64)

\* C10: a.DistanceFrom(b) = b.DistanceFrom(a) for every two samples, whether
\* their term sets are equal, overlap or are disjoint.  (Two NaN results
\* count as the same result.)
C10_DistanceSymmetric ==
    lastOp.op = "DistanceFrom" =>
        lastOp.ret = DistanceFrom(samples[2], samples[1])

\* DistanceFrom called on two samples whose term sets overlap without being
\* equal, at a distance other than 0.
C10_Witness ==
    /\ lastOp.op = "DistanceFrom"
    /\ DOMAIN samples[1].repTerms # DOMAIN samples[2].repTerms
    /\ DOMAIN samples[1].repTerms \cap DOMAIN samples[2].repTerms # {}
    /\ FLess(Zero64, lastOp.ret)

\* The weight of term t in a weight map, 0 when the map does not carry t.
WeightOr0(terms, t) == IF t \in DOMAIN terms THEN terms[t] ELSE Zero64

\* A sample with a weight other than 0 and no weight that is NaN or infinite.
NonZeroFinite(smp) ==
    /\ NonZero(smp.repTerms)
    /\ \A t \in DOMAIN smp.repTerms : IsFin(smp.repTerms[t])

\* The sum of the products of the weights over the terms both maps carry.
DotCommon(ts, ta) ==
    SumOver([t \in DOMAIN ts \cap DOMAIN ta |-> FMul(ts[t], ta[t])],
            DOMAIN ts \cap DOMAIN ta)

\* C11: a.DistanceFrom(b) is the sum, over the union of the terms of a and b,
\* of the squared difference of the two weights, a term that one side does
\* not carry counting as weight 0 there.
C11_DistanceOverUnion ==
    lastOp.op = "DistanceFrom" =>
        LET ts == samples[1].repTerms
            ta == samples[2].repTerms
            U == DOMAIN ts \cup DOMAIN ta
        IN  lastOp.ret =
                SumOver([t \in U |->
                            FMul(FSub(WeightOr0(ts, t), WeightOr0(ta, t)),
                                 FSub(WeightOr0(ts, t), WeightOr0(ta, t)))], U)

\* DistanceFrom called on a receiver that carries a term the argument does
\* not, with a weight other than 0, and a common term whose weights differ.
C11_Witness ==
    /\ lastOp.op = "DistanceFrom"
    /\ \E t \in DOMAIN samples[1].repTerms \ DOMAIN samples[2].repTerms :
          FLess(Zero64, samples[1].repTerms[t])
    /\ \E u \in DOMAIN samples[1].repTerms \cap DOMAIN samples[2].repTerms :
          /\ IsFin(samples[1].repTerms[u])
          /\ IsFin(samples[2].repTerms[u])
          /\ samples[1].repTerms[u] # samples[2].repTerms[u]

\* C12: for non-zero samples a and b, a.CosineSim(b) is the sum of the
\* products of the weights over the terms both carry, divided by the product
\* of the Euclidean norms of a and b.
C12_CosineIsDotOverNorms ==
    (lastOp.op = "CosineSim" /\ NonZeroFinite(lastOp.pre) /\ NonZeroFinite(samples[2])) =>
        FEq(lastOp.ret,
            FDiv(DotCommon(lastOp.pre.repTerms, samples[2].repTerms),
                 FMul(EuclideanNorm(lastOp.pre.repTerms),
                      EuclideanNorm(samples[2].repTerms))))

\* C13: in every state the calls reach, the cosine similarity of two non-zero
\* samples lies in [-1, 1] and that of a non-zero sample with itself is 1.
C13_CosineBound ==
    \A a, b \in 1..2 :
        (NonZeroFinite(samples[a]) /\ NonZeroFinite(samples[b])) =>
            LET c == CosineSim(samples[a], samples[b])
            IN  /\ ~FLess(c, F(0 - 1))
                /\ ~FLess(One64, c)
                /\ (a = b => FEq(c, One64))

\* C14: s.Add(other) leaves in s, for every term of s or of other, the old
\* weight of s (0 if absent) plus the weight of other (0 if absent); the
\* terms of s become the union of both term sets; other is as it was.
C14_AddAccumulates ==
    lastOp.op = "Add" =>
        /\ DOMAIN samples[1].repTerms =
              DOMAIN lastOp.pre.repTerms \cup DOMAIN lastOp.arg.repTerms
        /\ \A t \in DOMAIN samples[1].repTerms :
              samples[1].repTerms[t] =
                  FAdd(WeightOr0(lastOp.pre.repTerms, t),
                       WeightOr0(lastOp.arg.repTerms, t))
        /\ samples[2] = lastOp.arg

\* Add called with an argument that shares a term with the receiver, both
\* weights other than 0, and carries a term the receiver did not.
C14_Witness ==
    /\ lastOp.op = "Add"
    /\ \E t \in DOMAIN lastOp.pre.repTerms \cap DOMAIN lastOp.arg.repTerms :
          /\ FLess(Zero64, lastOp.pre.repTerms[t])
          /\ FLess(Zero64, lastOp.arg.repTerms[t])
    /\ DOMAIN lastOp.arg.repTerms \ DOMAIN lastOp.pre.repTerms # {}

(***************************************************************************)
(* Claims about the cluster statistics (SpecStats).                        *)
(***************************************************************************)
\* The mean of the values g takes on the set S.
MeanOver(g, S) == FDiv(SumOver(g, S), F(Cardinality(S)))

\* The sum over S of the squared deviation of g from its mean.
SqDevOver(g, S) ==
    SumOver([p \in S |-> FMul(FSub(g[p], MeanOver(g, S)), FSub(g[p], MeanOver(g, S)))], S)

\* v is the standard deviation of the values g takes on S: the population
\* one (dividing by the number of values) or the sample one (by one less).
IsStdevOver(v, g, S) ==
    \/ v = FSqrt(FDiv(SqDevOver(g, S), F(Cardinality(S))))
    \/ Cardinality(S) >= 2 /\ v = FSqrt(FDiv(SqDevOver(g, S), F(Cardinality(S) - 1)))

\* The unordered pairs of distinct member positions of c.
MemberPairs(c) ==
    { p \in (1..Len(c.Members)) \X (1..Len(c.Members)) : p[1] < p[2] }

\* C17: for a cluster with n >= 2 members PairwiseConsineSimStats returns as
\* avg the sum of the cosine similarities of the n*(n-1)/2 unordered pairs of
\* distinct members divided by that number of pairs, and as stdev the
\* standard deviation of those similarities around avg.
C17_PairwiseStats ==
    (lastOp.op = "PairwiseConsineSimStats" /\ Len(clusters[1].Members) >= 2) =>
        LET c == clusters[1]
            g == [p \in MemberPairs(c) |->
                    CosineSim(Sample(c.Members[p[1]]), Sample(c.Members[p[2]]))]
        IN  /\ Cardinality(MemberPairs(c)) = (Len(c.Members) * (Len(c.Members) - 1)) \div 2
            /\ FEq(lastOp.ret.avg, MeanOver(g, MemberPairs(c)))
            /\ IsStdevOver(lastOp.ret.stdev, g, MemberPairs(c))

\* C18: for two non-empty clusters c and d InterClusterConsineSimStats
\* returns as avg the mean of the cosine similarity over the |c|*|d| cross
\* pairs, and as stdev the standard deviation of those similarities around avg.
C18_InterClusterStats ==
    (lastOp.op = "InterClusterConsineSimStats"
        /\ Len(clusters[1].Members) >= 1 /\ Len(clusters[2].Members) >= 1) =>
        LET c == clusters[1]
            d == clusters[2]
            X == (1..Len(c.Members)) \X (1..Len(d.Members))
            g == [p \in X |-> CosineSim(Sample(c.Members[p[1]]), Sample(d.Members[p[2]]))]
        IN  /\ FEq(lastOp.ret.avg, MeanOver(g, X))
            /\ IsStdevOver(lastOp.ret.stdev, g, X)

(***************************************************************************)
(* Claims about TrainFromData (SpecTrain).                                 *)
(***************************************************************************)
\* C19: for MaxIteration >= 1 TrainFromData runs at most MaxIteration EM
\* steps (an E-step and an M-step each) and then returns, whether or not the
\* relative likelihood improvement falls below LikelihoodIncLimit.
C19_AtMostMaxIteration ==
    param.MaxIteration >= 1 => emSteps <= param.MaxIteration

(***************************************************************************)
(* Claims about Load (SpecLoad).                                           *)
(***************************************************************************)
\* The lines of a file: the pieces between its newlines; what follows the
\* last newline is a line unless it is empty.
LinesOf(bytes) ==
    LET pieces == Split(bytes, "\n")
    IN  IF pieces[Len(pieces)] = <<>> THEN SubSeq(pieces, 1, Len(pieces) - 1) ELSE pieces

\* The fields of a line.
FieldsOf(line) == Split(Trim(line, {" "}), " ")

\* The lines of ls that have at least 4 fields, in order.
RECURSIVE SampleLines(_)
SampleLines(ls) ==
    IF ls = <<>> THEN <<>>
    ELSE (IF Len(FieldsOf(ls[1])) >= 4 THEN <<ls[1]>> ELSE <<>>) \o SampleLines(Tail(ls))

\* The positions of the terms of a line that are followed by a weight.
PairsOf(fields) ==
    { j \in 3..Len(fields) : j % 2 = 1 /\ j + 1 <= Len(fields) /\ IsNumber(fields[j + 1]) }

\* The term/weight pairs of a line, as a weight map.
TermWeightsOf(fields) ==
    [t \in { fields[j] : j \in PairsOf(fields) } |->
        ParseFloat(fields[(CHOOSE j \in PairsOf(fields) : fields[j] = t) + 1])]

\* C20: when Load has returned, the processor was called once for each line
\* of the file, in file order; SampleSize() is the number of lines with at
\* least 4 space-separated fields and Sample(n) carries the term/weight pairs
\* of the n-th such line.
C20_LoadReadsEveryLine ==
    pc = "loaded" =>
        LET ls == LinesOf(file)
            sl == SampleLines(ls)
        IN  /\ Len(calls) = Len(ls)
            /\ \A j \in 1..Len(ls) : calls[j] = Trim(ls[j], {" "})
            /\ SampleSize = Len(sl)
            /\ \A n \in 0..(SampleSize - 1) :
                  Sample(n).repTerms = TermWeightsOf(FieldsOf(sl[n + 1]))

(***************************************************************************)
(* Claims about the update and the convergence check of a run (Spec).      *)
(***************************************************************************)
\* The terms the members of cluster c carry.
MemberTerms(c) == UNION { DOMAIN Sample(m).repTerms : m \in MemberSet(c) }

\* The mean of the members of c: the pointwise sum of their weights (0 for a
\* term a member does not carry) divided by the member count.
MemberMean(c) ==
    [t \in MemberTerms(c) |->
        FDiv(SumOver([m \in MemberSet(c) |-> WeightOr0(Sample(m).repTerms, t)],
                     MemberSet(c)),
             F(Len(c.Members)))]

\* Cluster c has a member, and its members' weights are numbers, not all 0.
HasMeanDirection(c) ==
    /\ Len(c.Members) >= 1
    /\ \A m \in MemberSet(c) : \A t \in DOMAIN Sample(m).repTerms :
          IsFin(Sample(m).repTerms[t])
    /\ NonZero(MemberMean(c))

\* The centroid of c is the mean of its members; in spherical mode, the
\* mean divided by its Euclidean norm.
CentroidIsMean(c) ==
    LET z == Deref(c.Centroid)
        mean == MemberMean(c)
    IN  /\ DOMAIN z.repTerms = DOMAIN mean
        /\ \A t \in DOMAIN mean :
              z.repTerms[t] = IF isSpherical
                              THEN FDiv(mean[t], EuclideanNorm(mean))
                              ELSE mean[t]

\* C23: after RecalcCentroid on a cluster with at least one member the
\* centroid is the mean of the members; in spherical mode it is that mean
\* brought to unit norm: its weights have Euclidean norm 1 and Norm() called
\* on it returns 1.
C23_RecalcCentroidIsUnitMean ==
    pc = "check" =>
        \A j \in 1..Len(newClusters) :
            HasMeanDirection(newClusters[j]) =>
                /\ CentroidIsMean(newClusters[j])
                /\ isSpherical =>
                      /\ EuclideanNorm(Deref(newClusters[j].Centroid).repTerms) = One64
                      /\ Norm(Deref(newClusters[j].Centroid)) = One64

\* The identities of the members of cluster c.
IdSet(c) == { Id(Sample(c.Members[m])) : m \in 1..Len(c.Members) }

\* At every cluster position the new generation has the members of the
\* previous one, as a set of sample identities.
SameMembership ==
    \A j \in 1..Len(newClusters) : IdSet(newClusters[j]) = IdSet(clusters[j])

\* C24: kMean stops at an iteration exactly when, at every cluster position,
\* the new generation's membership equals the previous generation's as a set
\* of sample identities, so it stops at the first such iteration and only at
\* one; when a cluster differs, the new generation becomes the current one
\* and the loop goes round again.
C24_StopsExactlyWhenMembershipStable ==
    [][/\ pc = "check" =>
             IF SameMembership
             THEN pc' = "done" /\ result' = clusters
             ELSE pc' = "assign" /\ clusters' = newClusters
       /\ (pc # "done" /\ pc' = "done") => (pc = "check" /\ SameMembership)]_vars

\* A run with two clusters has returned: its first iteration changed the
\* membership and went round again, its second found it unchanged.
C24_Witness ==
    /\ pc = "done"
    /\ Cardinality(seen) = 2
    /\ Len(result) = 2
    /\ SameMembership
    /\ \E j \in 1..Len(clusters) : clusters[j].Members # <<>>

\* C25: the cluster list kMean returns for a non-empty corpus and k >= 1 has
\* exactly k clusters with the ids 1..k in order, every corpus sample is a
\* member of exactly one of them, and that one is the cluster nearestCentroid
\* selects for the sample against the returned clusters' own centroids.
C25_ReturnedIsFixedPoint ==
    (pc = "done" /\ SampleSize >= 1 /\ k >= 1) =>
        /\ Len(result) = k
        /\ \A j \in 1..Len(result) : result[j].Id = j
        /\ \A n \in AllSamples :
              /\ TimesMember(result, n) = 1
              /\ LET index == nearestCentroid(Sample(n), result, isSpherical)
                 IN  /\ index + 1 \in 1..Len(result)
                     /\ n \in MemberSet(result[index + 1])

\* A run on three samples has returned two clusters, both with members.
C25_Witness ==
    /\ pc = "done"
    /\ SampleSize = MaxSamples
    /\ Len(result) = 2
    /\ \A j \in 1..Len(result) : result[j].Members # <<>>
====
